---- MODULE Spec2Model ----
(***************************************************************************)
(* A model of zamm's generation pipeline: generate_code (lib.rs) locates   *)
(* the input (parse/mod.rs find_file), parses it and merges the override   *)
(* file (parse_input), resolves the import declarations                    *)
(* (parse/handle_imports.rs retrieve_imports), writes the intermediate     *)
(* build directory, builds the codegen binary and runs it                  *)
(* (intermediate_build/build_logic.rs).                                    *)
(*                                                                         *)
(* Strings are sequences of symbols: "\n" is the newline, every other      *)
(* symbol is a piece of text that holds no newline.  In a line that starts *)
(* with "use " every symbol is one character, so the length of the         *)
(* sequence is chars().count().  Concatenation of strings (+=) is \o.      *)
(*                                                                         *)
(* A second specification, SpecLibrary, calls extract_code,                *)
(* separate_imports with code_main, and the command runner on inputs of    *)
(* their own.                                                              *)
(***************************************************************************)
EXTENDS Integers, Sequences, FiniteSets, TLC

(***************************************************************************)
(* Bounds.                                                                 *)
(***************************************************************************)
\* The longest import list of the input document.
MaxImports == 3

\* The longest document extract_code is called on, in blocks.
MaxBlocks == 2

\* The longest code separate_imports is called on, in lines.
MaxLines == 4

\* The width of usize in bits.  Rust's targets have 16, 32 or 64; the
\* wrapped difference is taken at the narrowest.
USIZE_BITS == 16

NL == "\n"

\* Option<T>: None, or Some(x).
None == <<>>
Some(x) == <<x>>
Unwrap(option) == option[1]

(***************************************************************************)
(* parse/markdown.rs                                                       *)
(***************************************************************************)
\* CodeExtraction::default(), with the import list parse/mod.rs and
\* handle_imports.rs read from it.
DefaultExtraction == [rust |-> <<>>, toml |-> <<>>, imports |-> <<>>]

\* code.ends_with("\n\n")
EndsWithBlankLine(code) ==
    /\ Len(code) >= 2
    /\ code[Len(code)] = NL
    /\ code[Len(code) - 1] = NL

\* A variant of the pop that takes any trailing newline.
trim_code_any_newline(code) ==
    IF Len(code) >= 1 /\ code[Len(code)] = NL
    THEN SubSeq(code, 1, Len(code) - 1) ELSE code

\* CodeExtraction::trim_code: pops one character when the code ends "\n\n".
trim_code(code) ==
    IF EndsWithBlankLine(code) THEN SubSeq(code, 1, Len(code) - 1) ELSE code

\* A variant of the match that takes a fenced block without a language for
\* a rust block.
AppendBlock_untagged_as_rust(code, block) ==
    IF block.kind = "fenced" /\ block.lang \in {"rust", ""}
    THEN [code EXCEPT !.rust = @ \o block.text]
    ELSE IF block.kind = "fenced" /\ block.lang = "toml"
    THEN [code EXCEPT !.toml = @ \o block.text]
    ELSE code

\* A document is the sequence of blocks the Markdown parser reports: a
\* block is fenced (with its language tag), indented or a paragraph, and
\* carries one Text event.  The match on Event::Text inside extract_code:
\* only a fenced block sets code_block, and Event::End clears it.
AppendBlock(code, block) ==
    IF block.kind = "fenced" /\ block.lang = "rust"
    THEN [code EXCEPT !.rust = @ \o block.text]
    ELSE IF block.kind = "fenced" /\ block.lang = "toml"
    THEN [code EXCEPT !.toml = @ \o block.text]
    ELSE code

RECURSIVE Accumulate(_, _)
\* The event loop of extract_code, block by block in document order.
Accumulate(blocks, code) ==
    IF blocks = <<>> THEN code
    ELSE Accumulate(Tail(blocks), AppendBlock(code, Head(blocks)))

\* The import declarations a document carries.
DeclaredImports(doc) == doc.imports

\* extract_code: accumulate, then CodeExtraction::trim.
extract_code(doc) ==
    LET code == Accumulate(doc.blocks, DefaultExtraction)
    IN  [rust    |-> trim_code(code.rust),
         toml    |-> trim_code(code.toml),
         imports |-> DeclaredImports(doc)]

\* The empty string as a document: unwrap_or_default() of an absent override.
EmptyDocument == [blocks |-> <<>>, imports |-> <<>>]

Fenced(lang, text) == [kind |-> "fenced", lang |-> lang, text |-> text]
Indented(text) == [kind |-> "indented", lang |-> "", text |-> text]
Paragraph(text) == [kind |-> "para", lang |-> "", text |-> text]

(***************************************************************************)
(* Inputs: the files and network resources the pipeline may read.          *)
(***************************************************************************)
\* Import declarations.  A network import starts with the token "http".
LocalA == <<"a.md">>
LocalB == <<"b.md">>
NetX == <<"http", "://x.md">>
NetY == <<"http", "://y.md">>
EmptyImport == <<>>
ImportNames == {EmptyImport, LocalA, LocalB, NetX, NetY}

ImportLists(n) == UNION {[1..k -> ImportNames] : k \in 0..n}

\* The document behind every import: what the file holds, or what a
\* successful GET returns.  Every one extracts to a different source text.
ImportedDocument(name) ==
    IF name = LocalA
    THEN [blocks |-> <<Fenced("rust", <<"a;", NL>>), Fenced("toml", <<"adep", NL>>)>>,
          imports |-> <<>>]
    ELSE IF name = LocalB
    THEN [blocks |-> <<Paragraph(<<"B">>), Fenced("rust", <<"b;", NL, NL>>)>>,
          imports |-> <<>>]
    ELSE IF name = NetX
    THEN [blocks |-> <<Fenced("rust", <<"x;", NL>>), Fenced("json", <<"{}", NL>>)>>,
          imports |-> <<>>]
    ELSE [blocks |-> <<Fenced("rust", <<"y;", NL>>), Fenced("rust", <<"yy;", NL>>)>>,
          imports |-> <<>>]

\* The code blocks of the input documents.
HostBlocks ==
    { <<Paragraph(<<"No code in here.">>)>>,
      <<Fenced("rust", <<"h;", NL>>)>>,
      <<Fenced("rust", <<"h;", NL>>), Fenced("toml", <<"hdep", NL>>)>> }

HostDocuments ==
    [blocks : HostBlocks, imports : ImportLists(MaxImports)]

\* The code blocks of the override files.
OverrideBlocks ==
    { <<Fenced("rust", <<"o;", NL>>)>>,
      <<Fenced("rust", <<"o;", NL>>), Fenced("toml", <<"odep", NL>>)>> }

\* The import lists of the override files.
OverrideImports == { <<>>, <<LocalB>>, <<NetY, LocalA>> }

OverrideDocuments ==
    [blocks : OverrideBlocks, imports : OverrideImports]

\* Paths: a file stem and its extension.
YinMd == [stem |-> "yin", ext |-> "md"]
NotesTxt == [stem |-> "notes", ext |-> "txt"]
InputFiles == {None, Some(YinMd), Some(NotesTxt)}

\* The outcomes of an HTTP GET: a 2xx response, an error status, or an
\* error of the transport (no response at all).
GetOutcomes == {"2xx", "404", "transport_error"}

(***************************************************************************)
(* parse/handle_imports.rs                                                 *)
(***************************************************************************)
StartImports == <<"zamm_yang::helper::start_imports();", NL>>
EndImports == <<"zamm_yang::helper::end_imports();", NL>>

is_empty(s) == s = <<>>

\* i.starts_with("http")
starts_with_http(i) == Len(i) >= 1 /\ i[1] = "http"

NonEmptyImport(i) == ~is_empty(i)
IsNetworkImport(i) == starts_with_http(i)
IsLocalImport(i) == ~starts_with_http(i)

\* .filter(|i| !i.is_empty()) ... .partition(|i| i.starts_with("http")):
\* the first list of the pair.
NetworkImports(extraction) ==
    SelectSeq(SelectSeq(extraction.imports, NonEmptyImport), IsNetworkImport)

\* The second list of the pair.
LocalImports(extraction) ==
    SelectSeq(SelectSeq(extraction.imports, NonEmptyImport), IsLocalImport)

\* A variant of imports_involved that looks at the imports left once the
\* empty ones are filtered out.
imports_involved_filtered(extraction) ==
    ~is_empty(SelectSeq(extraction.imports, NonEmptyImport))

\* let imports_involved = !extraction.imports.is_empty();
imports_involved(extraction) == ~is_empty(extraction.imports)

\* What retrieve_imports pushes before the imports.
Prologue(extraction) ==
    IF imports_involved(extraction) THEN StartImports ELSE <<>>

\* What retrieve_imports pushes after the imports: the end marker, then the
\* document's own code.
Epilogue(extraction) ==
    (IF imports_involved(extraction) THEN EndImports ELSE <<>>) \o extraction.rust

(***************************************************************************)
(* parse/mod.rs                                                            *)
(***************************************************************************)
\* A variant of find_file that returns the specified path unchecked.
find_file_unchecked(specified_file, exists) ==
    [ok |-> TRUE, path |-> IF specified_file # None THEN Unwrap(specified_file) ELSE YinMd]

\* find_file: the path found, or the NotFound error.
find_file(specified_file, exists) ==
    IF specified_file # None
    THEN IF exists
         THEN [ok |-> TRUE, path |-> Unwrap(specified_file)]
         ELSE [ok |-> FALSE, kind |-> "NotFound",
               msg |-> <<"Specified input file was not found at", Unwrap(specified_file)>>]
    ELSE IF exists
         THEN [ok |-> TRUE, path |-> YinMd]
         ELSE [ok |-> FALSE, kind |-> "NotFound",
               msg |-> <<"No input file was specified, and no default inputs were found">>]

\* retrieve_override()?.unwrap_or_default(): the override file's content,
\* or the empty string when there is no override file.
override_content(override_file) ==
    IF override_file = None THEN EmptyDocument ELSE Unwrap(override_file)

\* A variant of the merge that appends the override's imports to the
\* document's instead of replacing them.
merge_override_union(initial_extraction, override_extraction) ==
    [rust    |-> initial_extraction.rust \o override_extraction.rust,
     imports |-> initial_extraction.imports \o override_extraction.imports,
     toml    |-> IF ~is_empty(override_extraction.toml)
                 THEN override_extraction.toml
                 ELSE initial_extraction.toml]

\* The merge inside parse_input.
merge_override(initial_extraction, override_extraction) ==
    [rust    |-> initial_extraction.rust \o override_extraction.rust,
     imports |-> IF ~is_empty(override_extraction.imports)
                 THEN override_extraction.imports
                 ELSE initial_extraction.imports,
     toml    |-> IF ~is_empty(override_extraction.toml)
                 THEN override_extraction.toml
                 ELSE initial_extraction.toml]

\* The extension match of parse_input: only "md" is parsed.
extension_supported(found_input) == found_input.ext = "md"

(***************************************************************************)
(* commands/run_command.rs                                                 *)
(***************************************************************************)
\* How a spawned process ends: it exits zero, exits non-zero, or cannot be
\* spawned at all.
ProcessOutcomes == {"zero", "nonzero", "spawn_failed"}

\* A process as the runner meets it: how it ends, and what it writes to
\* its stdout and its stderr.
Process(outcome, stdout, stderr) ==
    [outcome |-> outcome, stdout |-> stdout, stderr |-> stderr]

RECURSIVE format_args(_)
\* args.format(" ")
format_args(args) ==
    IF args = <<>> THEN <<>>
    ELSE IF Len(args) = 1 THEN <<Head(args)>>
    ELSE <<Head(args), " ">> \o format_args(Tail(args))

\* format!("{} {}", command_name, args.format(" "))
full_command(command_name, args) == <<command_name, " ">> \o format_args(args)

\* What output() captures of a stream: nothing of a stream the child
\* inherits (Stdio::inherit()), all of one that is piped.
captured(stream_output, stream) == IF stream_output THEN <<>> ELSE stream

\* A variant of the runner that does not look at the exit status.
run_command_base_any_status(stream_output, command_name, args, process) ==
    IF process.outcome = "spawn_failed"
    THEN [ok |-> FALSE, kind |-> "Spawn", msg |-> <<>>, value |-> <<>>]
    ELSE [ok |-> TRUE, kind |-> "", msg |-> <<>>,
          value |-> captured(stream_output, process.stdout)]

\* run_command_base: the Result of one invocation.  output()? returns the
\* spawn's own io::Error; a status that is not success is an
\* Error::new(ErrorKind::Other, err_msg).
run_command_base(stream_output, command_name, args, process) ==
    IF process.outcome = "spawn_failed"
    THEN [ok |-> FALSE, kind |-> "Spawn", msg |-> <<>>, value |-> <<>>]
    ELSE IF process.outcome = "zero"
    THEN [ok |-> TRUE, kind |-> "", msg |-> <<>>,
          value |-> captured(stream_output, process.stdout)]
    ELSE [ok |-> FALSE, kind |-> "Other",
          msg |-> <<"Command failed: ">> \o full_command(command_name, args)
                  \o <<NL, NL, "Stderr:">>
                  \o captured(stream_output, process.stderr),
          value |-> <<>>]

\* run_command: run_command_base(false, command, args).
run_command(command, args, process) ==
    run_command_base(FALSE, command, args, process)

\* run_streamed_command: run_command_base(true, command, args)?; Ok(()).
run_streamed_command(command, args, process) ==
    LET ran == run_command_base(TRUE, command, args, process)
    IN  IF ran.ok THEN [ran EXCEPT !.value = <<>>] ELSE ran

(***************************************************************************)
(* intermediate_build/build_logic.rs                                       *)
(***************************************************************************)
CODEGEN_BINARY == "intermediate-code-generator"
YANG_BUILD_VERSION == "0.0.12"

\* What env::var("YANG_DEV_DIR") may give: unset, or a directory.
YangDevDirs == {None, Some("yang_dev_dir")}

\* toml_code: the intermediate Cargo.toml, linked to the local yang when
\* YANG_DEV_DIR is set.
toml_code(yang_dev_dir) ==
    [package      |-> CODEGEN_BINARY,
     dependencies |-> << <<"zamm_yin", "0.0.13">>,
                         <<"zamm_yang", IF yang_dev_dir = None
                                        THEN YANG_BUILD_VERSION
                                        ELSE Unwrap(yang_dev_dir)>> >>]

RECURSIVE SplitLines(_, _)
\* code.split('\n'): the lines of code, line being the one under way.
SplitLines(code, line) ==
    IF code = <<>> THEN <<line>>
    ELSE IF Head(code) = NL
         THEN <<line>> \o SplitLines(Tail(code), <<>>)
         ELSE SplitLines(Tail(code), Append(line, Head(code)))

\* line.starts_with("use ")
starts_with_use(line) ==
    Len(line) >= 4 /\ SubSeq(line, 1, 4) = <<"u", "s", "e", " ">>

\* usize subtraction without overflow checks: the difference wraps.
wrapping_sub(a, b) == (a - b) % (2 ^ USIZE_BITS)

\* usize subtraction with overflow checks panics when b exceeds a.
sub_overflows(a, b) == a < b

\* Iterator::skip(n) and Iterator::take(n) on the characters of a line.
skip(chars, n) == SubSeq(chars, n + 1, Len(chars))
take(chars, n) == SubSeq(chars, 1, IF n < Len(chars) THEN n ELSE Len(chars))

\* A variant of the stripping that keeps the last character.
StripUse_keeping_last(line) == skip(line, 4)

\* line.chars().skip(4).take(line.chars().count() - 5).collect(): the line
\* without its first four characters and, when the count does not wrap,
\* without its last one.
StripUse(line) == take(skip(line, 4), wrapping_sub(Len(line), 5))

RECURSIVE JoinLines(_)
\* lines.iter().format("\n")
JoinLines(lines) ==
    IF lines = <<>> THEN <<>>
    ELSE IF Len(lines) = 1 THEN Head(lines)
    ELSE Head(lines) \o <<NL>> \o JoinLines(Tail(lines))

IsUseLine(line) == starts_with_use(line)
IsCodeLine(line) == ~starts_with_use(line) /\ ~is_empty(line)

\* line.chars().count() - 5 overflows on one of the code's lines.
count_overflows(code) ==
    LET all == SplitLines(code, <<>>)
    IN  \E i \in DOMAIN all : IsUseLine(all[i]) /\ sub_overflows(Len(all[i]), 5)

\* Whether the build checks integer overflow: the dev profile does, the
\* release profile does not.
OverflowChecks == BOOLEAN

\* separate_imports: the MainConfig of the code, when no subtraction
\* panics.
separate_imports(code) ==
    LET all == SplitLines(code, <<>>)
        uses == SelectSeq(all, IsUseLine)
        lines == SelectSeq(all, IsCodeLine)
    IN  [imports |-> [i \in 1..Len(uses) |-> StripUse(uses[i])],
         lines   |-> IF ~is_empty(lines) THEN <<JoinLines(lines)>> ELSE <<>>]

\* code_main: the text of the intermediate main.rs, as its three variable
\* parts.
code_main(main_cfg, cfg) ==
    [imports |-> main_cfg.imports, codegen_cfg |-> cfg, code |-> main_cfg.lines]

\* The expected location of the codegen binary, under build_subdir().
BinaryPath == <<".yang", "target/debug", CODEGEN_BINARY>>

\* A variant of the verification that never looks at the path.
binary_exists_unchecked(binary) == TRUE

\* binary.exists()
binary_exists(binary) == binary # "absent"

\* CodegenConfig: the settings of the build command and of the release
\* command of main.rs.
CodegenConfigs ==
    { [comment_autogen |-> TRUE, add_rustfmt_attributes |-> TRUE,
       track_autogen |-> FALSE, yin |-> FALSE, release |-> r] : r \in BOOLEAN }

DefaultConfig ==
    [comment_autogen |-> TRUE, add_rustfmt_attributes |-> TRUE,
     track_autogen |-> FALSE, yin |-> FALSE, release |-> FALSE]

\* What an earlier invocation may have left in the build directory:
\* nothing, or its two files and its binary.
OldMain == Some(code_main(separate_imports(<<"old;", NL>>), DefaultConfig))
OldToml == Some(toml_code(None))

Leftovers ==
    { [main_rs |-> None, cargo_toml |-> None, binary |-> "absent"],
      [main_rs |-> OldMain, cargo_toml |-> OldToml, binary |-> "stale"] }

(***************************************************************************)
(* Inputs of the calls of SpecLibrary.                                     *)
(***************************************************************************)
\* Sequences of at most n elements of a set.
SeqsUpTo(set, n) == UNION {[1..k -> set] : k \in 0..n}

\* The info strings of fenced blocks: the two extract_code matches, one it
\* does not, and none.
Tags == {"rust", "toml", "json", ""}

\* The text of a block: ending in one newline, in a blank line, or being
\* one blank line.
BlockTexts == { <<"x;", NL>>, <<"y;", NL, NL>>, <<NL>> }

Blocks ==
    {Fenced(tag, text) : tag \in Tags, text \in BlockTexts}
    \cup {Indented(<<"i;", NL>>), Paragraph(<<"P">>)}

Documents == [blocks : SeqsUpTo(Blocks, MaxBlocks), imports : {<<>>}]

\* Lines of code, character by character: imports, the prefix alone, an
\* import that does not end in ";", code, indented code, the empty line,
\* and code that starts with "use" but not with "use ".
UsePrefix == <<"u", "s", "e", " ">>
Lines ==
    { UsePrefix \o <<"a", ";">>,
      UsePrefix \o <<"b", ";">>,
      UsePrefix,
      UsePrefix \o <<"a", "b">>,
      <<"x", ";">>,
      <<" ", "y", ";">>,
      <<>>,
      <<"u", "s", "e", "r", ";">> }

LineLists == SeqsUpTo(Lines, MaxLines)

\* Invocations of the command runner, and the processes they may meet.
Commands ==
    [stream_output : BOOLEAN,
     command_name  : {"cargo"},
     args          : {<<>>, <<"build">>, <<"build", "--release">>},
     process       : {Process(outcome, stdout, stderr) :
                          outcome \in ProcessOutcomes,
                          stdout \in {<<>>, <<"out">>},
                          stderr \in {<<>>, <<"error: E">>}}]

NoCommand ==
    [stream_output |-> FALSE, command_name |-> "", args |-> <<>>,
     process |-> Process("zero", <<>>, <<>>)]

(***************************************************************************)
(* The state of one invocation of generate_code.                           *)
(***************************************************************************)
VARIABLES
    pc,               \* the step generate_code is at
    input_file,       \* generate_code's input_file: Option<&str>
    codegen_cfg,      \* generate_code's codegen_cfg
    input_exists,     \* whether find_file found the file it looked for
    found_input,      \* the path find_file returned
    override_file,    \* what retrieve_override returned
    extraction,       \* parse_input's initial_extraction, merged in place
    override_extraction, \* parse_input's override_extraction
    final_extraction, \* retrieve_imports: the extraction under construction
    next_local,       \* retrieve_imports: the local import the loop is at
    launched,         \* how many download futures have been started
    completed,        \* how many download futures have completed
    failed_import,    \* the import that failed to resolve, if one did
    parse_output,     \* what parse_input returned: Option<ParseOutput>
    fs,               \* the build directory: main.rs, Cargo.toml, the binary
    cwd,              \* the process's current directory
    writes,           \* the files this invocation has written
    spawned,          \* the commands this invocation has spawned
    stderr,           \* what this invocation printed with eprintln!
    build_result,     \* the Result of the cargo build command
    run_result,       \* the Result of the codegen binary's run
    ran_binary,       \* which binary was executed
    result,           \* how generate_code, or the call, ended
    call,             \* SpecLibrary: the function called
    markdown,         \* extract_code's argument
    extracted,        \* what extract_code returned
    source_lines,     \* the lines of separate_imports' argument
    separated,        \* what separate_imports and code_main returned
    command,          \* the command runner's arguments and the process
    command_result    \* the Result the command runner returned

vars == <<pc, input_file, codegen_cfg, input_exists, found_input, override_file, extraction, override_extraction,
          final_extraction,
          next_local, launched, completed, failed_import, parse_output, fs, cwd,
          writes, spawned, stderr, build_result, run_result, ran_binary, result,
          call, markdown, extracted, source_lines, separated, command,
          command_result>>

input_vars == <<input_file, codegen_cfg, input_exists, found_input, override_file>>
retrieval_vars == <<extraction, override_extraction, final_extraction, next_local, launched, completed,
                    failed_import>>
build_vars == <<fs, cwd, writes, spawned, stderr, build_result, run_result, ran_binary>>

library_vars == <<call, markdown, extracted, source_lines, separated, command,
                  command_result>>

NoExtraction == [rust |-> <<>>, toml |-> <<>>]

Init ==
    /\ pc = "find_file"
    /\ input_file \in InputFiles
    /\ codegen_cfg \in CodegenConfigs
    /\ input_exists = None
    /\ found_input = None
    /\ override_file = None
    /\ extraction = DefaultExtraction
    /\ override_extraction = DefaultExtraction
    /\ final_extraction = NoExtraction
    /\ next_local = 1
    /\ launched = 0
    /\ completed = 0
    /\ failed_import = None
    /\ parse_output = None
    /\ fs \in Leftovers
    /\ cwd = "src_dir"
    /\ writes = <<>>
    /\ spawned = <<>>
    /\ stderr = <<>>
    /\ build_result = None
    /\ run_result = None
    /\ ran_binary = None
    /\ result = None
    /\ call = "generate_code"
    /\ markdown = EmptyDocument
    /\ extracted = None
    /\ source_lines = <<>>
    /\ separated = None
    /\ command = NoCommand
    /\ command_result = None

\* Err(e) returned through every `?` up to generate_code's caller.
ReturnErr(kind, msg) ==
    /\ result' = Some([kind |-> "Err", error |-> kind, msg |-> msg])
    /\ pc' = "done"

\* generate_code: let found_input = find_file(input_file)?;
FindFile ==
    /\ pc = "find_file"
    /\ \E exists \in BOOLEAN :
         LET found == find_file(input_file, exists)
         IN  IF found.ok
             THEN /\ found_input' = Some(found.path)
                  /\ input_exists' = Some(exists)
                  /\ pc' = "parse_input"
                  /\ UNCHANGED result
             ELSE /\ ReturnErr(found.kind, found.msg)
                  /\ input_exists' = Some(exists)
                  /\ UNCHANGED found_input
    /\ UNCHANGED <<input_file, codegen_cfg, override_file, parse_output>>
    /\ UNCHANGED retrieval_vars
    /\ UNCHANGED build_vars
    /\ UNCHANGED library_vars

\* parse_input: read the input, match its extension, extract its code and
\* the code of the override file.
ReadInput ==
    /\ pc = "parse_input"
    /\ IF extension_supported(Unwrap(found_input))
       THEN \E contents \in HostDocuments :
            \E retrieved \in {None} \cup {Some(d) : d \in OverrideDocuments} :
              /\ extraction' = extract_code(contents)
              /\ override_file' = retrieved
              /\ override_extraction' = extract_code(override_content(retrieved))
              /\ pc' = "merge"
              /\ UNCHANGED result
       ELSE /\ ReturnErr("NotFound", <<"The extension is not recognized",
                                       Unwrap(found_input).ext>>)
            /\ UNCHANGED <<extraction, override_file, override_extraction>>
    /\ UNCHANGED <<input_file, codegen_cfg, input_exists, found_input, parse_output>>
    /\ UNCHANGED <<final_extraction, next_local, launched, completed, failed_import>>
    /\ UNCHANGED build_vars
    /\ UNCHANGED library_vars

\* parse_input merges the override into initial_extraction (the override's
\* import list is moved out of it) and calls retrieve_imports, which
\* partitions the imports and pushes the start marker.
MergeOverride ==
    /\ pc = "merge"
    /\ LET merged == merge_override(extraction, override_extraction)
       IN  /\ extraction' = merged
           /\ final_extraction' = [rust |-> Prologue(merged), toml |-> <<>>]
    /\ override_extraction' = [override_extraction EXCEPT !.imports = <<>>]
    /\ pc' = "block_on"
    /\ UNCHANGED <<input_vars, parse_output, result>>
    /\ UNCHANGED <<next_local, launched, completed, failed_import>>
    /\ UNCHANGED build_vars
    /\ UNCHANGED library_vars

\* load: the extraction of a local import, or NotFound.
load(local_filename, exists) ==
    IF exists
    THEN [ok |-> TRUE, extraction |-> extract_code(ImportedDocument(local_filename))]
    ELSE [ok |-> FALSE, kind |-> "NotFound",
          msg |-> <<"No import file found at", local_filename>>]

\* download: reqwest::get(url).await.unwrap() panics when the transport
\* fails; error_for_status() turns an error status into NotFound.
download(url, outcome) ==
    IF outcome = "transport_error"
    THEN [ok |-> FALSE, kind |-> "Panic", msg |-> <<"called unwrap() on an Err value">>]
    ELSE IF outcome = "2xx"
    THEN [ok |-> TRUE, extraction |-> extract_code(ImportedDocument(url))]
    ELSE [ok |-> FALSE, kind |-> "NotFound",
          msg |-> <<"Unable to download build dependency from", url>>]

\* A variant of the push that puts the imported code in front.
PushImported_front(final, imported) == [final EXCEPT !.rust = imported.rust \o @]

\* final_extraction.rust += &imported.rust
PushImported(final, imported) == [final EXCEPT !.rust = @ \o imported.rust]

\* A variant of the last statements that leaves the toml of the fresh
\* extraction as it is.
PushHost_without_toml(final, given) ==
    [rust |-> final.rust \o Epilogue(given), toml |-> final.toml]

\* The last statements of the async block: the end marker, the document's
\* own code and its toml.
PushHost(final, given) ==
    [rust |-> final.rust \o Epilogue(given), toml |-> given.toml]

\* retrieve_imports: one turn of `for local_import in local_imports`.
LoadLocal ==
    /\ pc = "block_on"
    /\ next_local <= Len(LocalImports(extraction))
    /\ \E exists \in BOOLEAN :
         LET local_import == LocalImports(extraction)[next_local]
             loaded == load(local_import, exists)
         IN  IF loaded.ok
             THEN /\ final_extraction' = PushImported(final_extraction, loaded.extraction)
                  /\ next_local' = next_local + 1
                  /\ UNCHANGED <<pc, result, failed_import>>
             ELSE /\ ReturnErr(loaded.kind, loaded.msg)
                  /\ failed_import' = Some(local_import)
                  /\ final_extraction' = NoExtraction
                  /\ UNCHANGED next_local
    /\ UNCHANGED <<input_vars, parse_output>>
    /\ UNCHANGED <<extraction, override_extraction, launched, completed>>
    /\ UNCHANGED build_vars
    /\ UNCHANGED library_vars

\* Whether the loop over network_futures may take its next future: the
\* local imports are done and the future it awaited has completed.
MayLaunch(started, finished) == started = finished

\* retrieve_imports: `for future_extraction in network_futures` takes the
\* next future from the lazy map(download) and starts to await it: the GET
\* of that import is sent.
StartDownload ==
    /\ pc = "block_on"
    /\ next_local > Len(LocalImports(extraction))
    /\ MayLaunch(launched, completed)
    /\ launched < Len(NetworkImports(extraction))
    /\ launched' = launched + 1
    /\ UNCHANGED <<pc, input_vars, parse_output, result>>
    /\ UNCHANGED <<extraction, override_extraction, final_extraction, next_local,
                   completed, failed_import>>
    /\ UNCHANGED build_vars
    /\ UNCHANGED library_vars

\* retrieve_imports: the future awaited completes, and `?` returns its
\* error or its extraction is pushed.
FinishDownload ==
    /\ pc = "block_on"
    /\ launched > completed
    /\ \E outcome \in GetOutcomes :
         LET url == NetworkImports(extraction)[completed + 1]
             downloaded == download(url, outcome)
         IN  IF downloaded.ok
             THEN /\ final_extraction' = PushImported(final_extraction, downloaded.extraction)
                  /\ completed' = completed + 1
                  /\ UNCHANGED <<pc, result, failed_import>>
             ELSE /\ failed_import' = Some(url)
                  /\ final_extraction' = NoExtraction
                  /\ UNCHANGED completed
                  /\ IF downloaded.kind = "Panic"
                     THEN /\ result' = Some([kind |-> "Panic", error |-> "unwrap",
                                             msg |-> downloaded.msg])
                          /\ pc' = "done"
                     ELSE ReturnErr(downloaded.kind, downloaded.msg)
    /\ UNCHANGED <<input_vars, parse_output>>
    /\ UNCHANGED <<extraction, override_extraction, next_local, launched>>
    /\ UNCHANGED build_vars
    /\ UNCHANGED library_vars

\* retrieve_imports: the last statements of the async block, once every
\* import is pushed.
FinishRetrieve ==
    /\ pc = "block_on"
    /\ next_local > Len(LocalImports(extraction))
    /\ launched = Len(NetworkImports(extraction))
    /\ completed = launched
    /\ final_extraction' = PushHost(final_extraction, extraction)
    /\ pc' = "retrieved"
    /\ UNCHANGED <<input_vars, parse_output, result>>
    /\ UNCHANGED <<extraction, override_extraction, next_local, launched, completed,
                   failed_import>>
    /\ UNCHANGED build_vars
    /\ UNCHANGED library_vars

\* retrieve_imports returns Ok(final_extraction), parse_input returns the
\* ParseOutput to generate_code and their locals are gone.
ReturnParseOutput ==
    /\ pc = "retrieved"
    /\ parse_output' = Some([filename |-> Unwrap(found_input),
                             extractions |-> final_extraction])
    /\ extraction' = DefaultExtraction
    /\ override_extraction' = DefaultExtraction
    /\ override_file' = None
    /\ final_extraction' = NoExtraction
    /\ next_local' = 1
    /\ launched' = 0
    /\ completed' = 0
    /\ pc' = "output_main"
    /\ UNCHANGED <<input_file, codegen_cfg, input_exists, found_input, failed_import,
                   result>>
    /\ UNCHANGED build_vars
    /\ UNCHANGED library_vars

\* The code generate_final_code is given: the final extraction's rust.
GeneratedCode == Unwrap(parse_output).extractions.rust

\* The panic of an arithmetic overflow.
OverflowPanic ==
    [kind |-> "Panic", error |-> "overflow",
     msg |-> <<"attempt to subtract with overflow">>]

\* generate_final_code, output_build_dir: output_main writes src/main.rs,
\* unless separate_imports panics.
OutputMain ==
    /\ pc = "output_main"
    /\ \E overflow_checks \in OverflowChecks :
         IF overflow_checks /\ count_overflows(GeneratedCode)
         THEN /\ result' = Some(OverflowPanic)
              /\ pc' = "done"
              /\ UNCHANGED <<fs, writes>>
         ELSE /\ fs' = [fs EXCEPT !.main_rs =
                          Some(code_main(separate_imports(GeneratedCode), codegen_cfg))]
              /\ writes' = Append(writes, "src/main.rs")
              /\ pc' = "output_cargo_toml"
              /\ UNCHANGED result
    /\ UNCHANGED <<input_vars, parse_output>>
    /\ UNCHANGED retrieval_vars
    /\ UNCHANGED <<cwd, spawned, stderr, build_result, run_result, ran_binary>>
    /\ UNCHANGED library_vars

\* output_build_dir: output_cargo_toml writes Cargo.toml.
OutputCargoToml ==
    /\ pc = "output_cargo_toml"
    /\ \E yang_dev_dir \in YangDevDirs :
         fs' = [fs EXCEPT !.cargo_toml = Some(toml_code(yang_dev_dir))]
    /\ writes' = Append(writes, "Cargo.toml")
    /\ pc' = "build"
    /\ UNCHANGED <<input_vars, parse_output, result>>
    /\ UNCHANGED retrieval_vars
    /\ UNCHANGED <<cwd, spawned, stderr, build_result, run_result, ran_binary>>
    /\ UNCHANGED library_vars

\* What a build leaves at the binary's path: a build that exits zero
\* leaves its own binary there, when it writes one or finds one to bring up
\* to date; any other build leaves what was there.
BuiltBinary(binary, outcome, written) ==
    IF outcome = "zero" /\ (written \/ binary # "absent") THEN "fresh" ELSE binary

\* Where build_codegen_binary goes after the build command, given the
\* command's Result: the Result is dropped, the verification is next.
AfterBuild(built) == "verify"

\* build_codegen_binary: change into the build directory and run
\* `cargo build`.
Build ==
    /\ pc = "build"
    /\ cwd' = "subdir"
    /\ \E outcome \in ProcessOutcomes, written \in BOOLEAN :
         LET built == run_streamed_command("cargo", <<"build">>,
                                          Process(outcome, <<>>, <<>>))
         IN  /\ build_result' = Some(built)
             /\ fs' = [fs EXCEPT !.binary = BuiltBinary(@, outcome, written)]
             /\ pc' = AfterBuild(built)
    /\ spawned' = Append(spawned, full_command("cargo", <<"build">>))
    /\ UNCHANGED <<input_vars, parse_output, result>>
    /\ UNCHANGED retrieval_vars
    /\ UNCHANGED <<writes, stderr, run_result, ran_binary>>
    /\ UNCHANGED library_vars

\* build_codegen_binary: verify the build.  Without the binary: eprintln!
\* and exit(1).  With it: back to the source directory.
Verify ==
    /\ pc = "verify"
    /\ IF ~binary_exists(fs.binary)
       THEN /\ stderr' = Append(stderr,
                   <<"Codegen binary was not found at expected location", BinaryPath>>)
            /\ result' = Some([kind |-> "Exit", error |-> "1", msg |-> <<>>])
            /\ pc' = "done"
            /\ UNCHANGED cwd
       ELSE /\ cwd' = "src_dir"
            /\ pc' = "run_codegen"
            /\ UNCHANGED <<stderr, result>>
    /\ UNCHANGED <<input_vars, parse_output>>
    /\ UNCHANGED retrieval_vars
    /\ UNCHANGED <<fs, writes, spawned, build_result, run_result, ran_binary>>
    /\ UNCHANGED library_vars

\* What generate_code returns once the codegen binary has been run, given
\* the run's Result: the Result is dropped, generate_code returns Ok(()).
AfterRun(ran) == [kind |-> "Ok", error |-> "", msg |-> <<>>]

\* generate_final_code runs the binary; generate_code returns.
RunCodegen ==
    /\ pc = "run_codegen"
    /\ \E outcome \in ProcessOutcomes :
         LET ran == run_streamed_command(BinaryPath, <<>>,
                                        Process(outcome, <<>>, <<>>))
         IN  /\ run_result' = Some(ran)
             /\ result' = Some(AfterRun(ran))
    /\ spawned' = Append(spawned, full_command(BinaryPath, <<>>))
    /\ ran_binary' = Some(fs.binary)
    /\ pc' = "done"
    /\ UNCHANGED <<input_vars, parse_output>>
    /\ UNCHANGED retrieval_vars
    /\ UNCHANGED <<fs, cwd, writes, stderr, build_result>>
    /\ UNCHANGED library_vars

(***************************************************************************)
(* SpecLibrary: one call of one function.                                  *)
(***************************************************************************)
InitLibrary ==
    /\ pc = "library"
    /\ input_file = None
    /\ codegen_cfg = DefaultConfig
    /\ input_exists = None
    /\ found_input = None
    /\ override_file = None
    /\ extraction = DefaultExtraction
    /\ override_extraction = DefaultExtraction
    /\ final_extraction = NoExtraction
    /\ next_local = 1
    /\ launched = 0
    /\ completed = 0
    /\ failed_import = None
    /\ parse_output = None
    /\ fs = [main_rs |-> None, cargo_toml |-> None, binary |-> "absent"]
    /\ cwd = "src_dir"
    /\ writes = <<>>
    /\ spawned = <<>>
    /\ stderr = <<>>
    /\ build_result = None
    /\ run_result = None
    /\ ran_binary = None
    /\ result = None
    /\ extracted = None
    /\ separated = None
    /\ command_result = None
    /\ \/ /\ call = "extract_code"
          /\ markdown \in Documents
          /\ source_lines = <<>>
          /\ command = NoCommand
       \/ /\ call = "separate_imports"
          /\ markdown = EmptyDocument
          /\ source_lines \in LineLists
          /\ command = NoCommand
       \/ /\ call = "run_command"
          /\ markdown = EmptyDocument
          /\ source_lines = <<>>
          /\ command \in Commands

pipeline_vars == <<pc, input_vars, retrieval_vars, parse_output, build_vars>>

\* extract_code(markdown)
ExtractCode ==
    /\ call = "extract_code"
    /\ extracted = None
    /\ extracted' = Some(extract_code(markdown))
    /\ UNCHANGED <<call, markdown, source_lines, separated, command, command_result>>
    /\ UNCHANGED <<pipeline_vars, result>>

\* The text separate_imports is called on.
SourceCode == JoinLines(source_lines)

\* code_main(&separate_imports(code), codegen_cfg), as output_main calls
\* them.
SeparateImports ==
    /\ call = "separate_imports"
    /\ separated = None
    /\ result = None
    /\ \E overflow_checks \in OverflowChecks :
         IF overflow_checks /\ count_overflows(SourceCode)
         THEN /\ result' = Some(OverflowPanic)
              /\ UNCHANGED separated
         ELSE /\ separated' =
                     Some([main_cfg |-> separate_imports(SourceCode),
                           main_rs  |-> code_main(separate_imports(SourceCode),
                                                  codegen_cfg)])
              /\ UNCHANGED result
    /\ UNCHANGED <<call, markdown, extracted, source_lines, command, command_result>>
    /\ UNCHANGED pipeline_vars

\* run_command(command, args) or run_streamed_command(command, args): one
\* Command::output().
RunCommand ==
    /\ call = "run_command"
    /\ command_result = None
    /\ command_result' =
           Some(IF command.stream_output
                THEN run_streamed_command(command.command_name, command.args,
                                          command.process)
                ELSE run_command(command.command_name, command.args,
                                 command.process))
    /\ spawned' = Append(spawned, full_command(command.command_name, command.args))
    /\ UNCHANGED <<call, markdown, extracted, source_lines, separated, command>>
    /\ UNCHANGED <<pc, input_vars, retrieval_vars, parse_output, result>>
    /\ UNCHANGED <<fs, cwd, writes, stderr, build_result, run_result, ran_binary>>

NextLibrary ==
    \/ ExtractCode
    \/ SeparateImports
    \/ RunCommand

SpecLibrary == InitLibrary /\ [][NextLibrary]_vars

Next ==
    \/ FindFile
    \/ ReadInput
    \/ MergeOverride
    \/ LoadLocal
    \/ StartDownload
    \/ FinishDownload
    \/ FinishRetrieve
    \/ ReturnParseOutput
    \/ OutputMain
    \/ OutputCargoToml
    \/ Build
    \/ Verify
    \/ RunCodegen

Spec == Init /\ [][Next]_vars

(***************************************************************************)
(* The claims.                                                             *)
(***************************************************************************)
\* retrieve_imports has composed the extraction it returns.
Resolved == pc = "retrieved"

\* The source retrieve_imports composed.
Composed == final_extraction.rust

\* The source extracted from one import declaration: nothing for the empty
\* declaration.
ImportedSource(import) ==
    IF is_empty(import) THEN <<>> ELSE extract_code(ImportedDocument(import)).rust

RECURSIVE ConcatSources(_)
\* The sources of the imports of a list, concatenated in the list's order.
ConcatSources(imports) ==
    IF imports = <<>> THEN <<>>
    ELSE ImportedSource(Head(imports)) \o ConcatSources(Tail(imports))

\* How often a token occurs in a text.
Occurrences(text, token) == Cardinality({i \in DOMAIN text : text[i] = token})

\* C1: for every import list, the imported source retrieve_imports composes
\* is the concatenation of the imports' sources in the order in which the
\* list declares them, local and network imports interleaved as declared.
C1_DeclarationOrder ==
    Resolved =>
        Composed = (IF extraction.imports # <<>> THEN StartImports ELSE <<>>)
                   \o ConcatSources(extraction.imports)
                   \o (IF extraction.imports # <<>> THEN EndImports ELSE <<>>)
                   \o extraction.rust

\* C2: for a given import list and given contents, the source
\* retrieve_imports returns is one and the same, whatever the order in
\* which the fetches complete: the local imports' sources in list order,
\* then the network imports' sources in list order, between the markers.
C2_SameUnderEveryCompletionOrder ==
    Resolved =>
        Composed = (IF extraction.imports # <<>> THEN StartImports ELSE <<>>)
                   \o ConcatSources(LocalImports(extraction))
                   \o ConcatSources(NetworkImports(extraction))
                   \o (IF extraction.imports # <<>> THEN EndImports ELSE <<>>)
                   \o extraction.rust

\* C2's case: a resolution that fetched two network imports.
C2_Witness ==
    /\ Resolved
    /\ Len(NetworkImports(extraction)) >= 2
    /\ completed >= 2
    /\ NetworkImports(extraction)[1] # NetworkImports(extraction)[2]

\* C3: every network import's GET has been started before the result of
\* any one of them is awaited: while a fetch is awaited, all are launched.
C3_AllLaunchedBeforeAwait ==
    (pc = "block_on" /\ launched > completed) =>
        launched = Len(NetworkImports(extraction))

\* C4: when an import fails to resolve, retrieve_imports returns a failure
\* value, nothing of the extraction under construction is kept and no
\* workspace file is written.
C4_FailureReturnsErr ==
    failed_import # None =>
        /\ pc = "done"
        /\ result # None
        /\ Unwrap(result).kind = "Err"
        /\ parse_output = None
        /\ final_extraction = NoExtraction
        /\ writes = <<>>

\* C5: with a non-empty import list the composed source begins with the
\* one start marker, holds the one end marker after all imported source and
\* right before the document's own source; with an empty import list it is
\* the document's source, with no marker.
C5_Markers ==
    Resolved =>
        LET host == extraction.rust
            end == Len(Composed) - Len(host)
        IN  /\ Occurrences(Composed, StartImports[1]) =
                   (IF extraction.imports # <<>> THEN 1 ELSE 0)
            /\ Occurrences(Composed, EndImports[1]) =
                   (IF extraction.imports # <<>> THEN 1 ELSE 0)
            /\ SubSeq(Composed, end + 1, Len(Composed)) = host
            /\ IF extraction.imports # <<>>
               THEN /\ end >= 4
                    /\ SubSeq(Composed, 1, 2) = StartImports
                    /\ SubSeq(Composed, end - 1, end) = EndImports
                    /\ SubSeq(Composed, 3, end - 2) =
                           ConcatSources(LocalImports(extraction))
                           \o ConcatSources(NetworkImports(extraction))
               ELSE Composed = host

\* C5's case: a resolution of a list with a local and a network import.
C5_Witness ==
    /\ Resolved
    /\ extraction.imports # <<>>
    /\ next_local >= 2
    /\ completed >= 1
    /\ extraction.rust # <<>>

\* The build command ended in an error: a non-zero exit or a failed spawn.
BuildFailed == build_result # None /\ ~Unwrap(build_result).ok

\* The codegen binary's run ended in an error.
RunFailed == run_result # None /\ ~Unwrap(run_result).ok

\* C6: when the build command exits non-zero, generation stops with that
\* failure: the verification and the execution of the binary are not
\* reached, and no binary is run, a stale one included.
C6_BuildFailureStops ==
    BuildFailed =>
        /\ pc \notin {"verify", "run_codegen"}
        /\ ran_binary = None
        /\ result # None
        /\ Unwrap(result).kind = "Err"

\* C7: when the codegen binary exits non-zero or cannot be spawned,
\* generate_code does not return Ok.
C7_RunFailurePropagates ==
    RunFailed => (result # None /\ Unwrap(result).kind # "Ok")

\* The diagnostic of the missing binary, which names the expected path.
MissingBinaryDiagnostic ==
    <<"Codegen binary was not found at expected location", BinaryPath>>

\* C8: the binary is executed only if it exists at the expected path once
\* the build command has run; when it does not, the pipeline fails with the
\* diagnostic that names the path, and the binary is never run.
C8_ArtifactVerified ==
    /\ pc = "run_codegen" => fs.binary # "absent"
    /\ ran_binary # None => Unwrap(ran_binary) # "absent"
    /\ (build_result # None /\ pc # "verify" /\ fs.binary = "absent") =>
           /\ pc = "done"
           /\ result = Some([kind |-> "Exit", error |-> "1", msg |-> <<>>])
           /\ stderr = <<MissingBinaryDiagnostic>>
           /\ ran_binary = None
           /\ spawned = <<full_command("cargo", <<"build">>)>>

\* C8's case: the build command exited zero, the binary is not there.
C8_Witness ==
    /\ pc = "done"
    /\ build_result # None
    /\ Unwrap(build_result).ok
    /\ fs.binary = "absent"
    /\ stderr # <<>>

\* C9: locating and parsing the input precede the workspace: a file is
\* written or a process spawned only once parse_input has returned, and
\* when the specified input file does not exist generate_code returns
\* NotFound with no file written and no process spawned.
C9_InputBeforeWorkspace ==
    /\ (writes # <<>> \/ spawned # <<>>) => (found_input # None /\ parse_output # None)
    /\ (input_file # None /\ input_exists = Some(FALSE)) =>
           /\ pc = "done"
           /\ result # None
           /\ Unwrap(result).kind = "Err"
           /\ Unwrap(result).error = "NotFound"
           /\ writes = <<>>
           /\ spawned = <<>>
           /\ fs \in Leftovers

\* C9's case: generate_code has returned for a specified file that does
\* not exist.
C9_Witness ==
    /\ input_file # None
    /\ input_exists = Some(FALSE)
    /\ pc = "done"

\* C10: the merge of the override into the base extraction: the source is
\* the base's followed by the override's; the imports are the override's
\* when it has any and the base's otherwise; the manifest is the
\* override's when it is non-empty and the base's otherwise; with no
\* override file the merged extraction is the base extraction.
C10_OverrideMerge ==
    [][pc = "merge" =>
          /\ extraction'.rust = extraction.rust \o override_extraction.rust
          /\ extraction'.imports = IF override_extraction.imports # <<>>
                                   THEN override_extraction.imports
                                   ELSE extraction.imports
          /\ extraction'.toml = IF override_extraction.toml # <<>>
                                THEN override_extraction.toml
                                ELSE extraction.toml
          /\ override_file = None => extraction' = extraction]_vars

\* C10's case: the merge has just replaced the document's imports and
\* manifest by the override's and appended the override's source.
C10_Witness ==
    /\ pc = "block_on"
    /\ next_local = 1
    /\ launched = 0
    /\ override_file # None
    /\ Unwrap(override_file).imports # <<>>
    /\ extraction.imports = Unwrap(override_file).imports
    /\ override_extraction.toml # <<>>
    /\ extraction.toml = override_extraction.toml
    /\ Len(extraction.rust) > Len(override_extraction.rust)

\* The manifest file declares the dependencies of a manifest buffer.
Embeds(file, manifest) ==
    \E i \in DOMAIN file.dependencies : file.dependencies[i] = manifest

\* Cargo.toml has been written by this invocation.
ManifestWritten == \E i \in DOMAIN writes : writes[i] = "Cargo.toml"

\* C15: the manifest file written embeds the final extraction's manifest
\* buffer as its dependencies when the buffer is non-empty, and holds only
\* the default dependencies when the buffer is empty.
C15_ManifestEmbedded ==
    ManifestWritten =>
        LET manifest == Unwrap(parse_output).extractions.toml
            file == Unwrap(fs.cargo_toml)
        IN  IF manifest # <<>>
            THEN Embeds(file, manifest)
            ELSE file \in {toml_code(dir) : dir \in YangDevDirs}

\* C16: retrieve_imports leaves the manifest untouched: the extraction it
\* returns has the manifest of the extraction it was given, and nothing of
\* an imported document's manifest, for every import list.
C16_ManifestUnchanged ==
    /\ pc = "block_on" => final_extraction.toml = <<>>
    /\ Resolved =>
           /\ final_extraction.toml = extraction.toml
           /\ Occurrences(final_extraction.toml, "adep") = 0

\* C16's case: a resolution that loaded a.md, which has a manifest of its
\* own, into a document that has one too.
C16_Witness ==
    /\ Resolved
    /\ extraction.toml # <<>>
    /\ \E i \in DOMAIN extraction.imports : extraction.imports[i] = LocalA
    /\ extract_code(ImportedDocument(LocalA)).toml # <<>>

\* C17: the current directory is the build directory only from the build
\* to the verification; the binary runs, and generation ends, in the
\* directory it started in; after a failure between the change and the
\* restoration the directory is not restored.
C17_WorkingDirectory ==
    /\ cwd = "subdir" =>
           (pc = "verify" \/ (pc = "done" /\ result # None /\ Unwrap(result).kind = "Exit"))
    /\ pc = "run_codegen" => cwd = "src_dir"
    /\ ran_binary # None => cwd = "src_dir"
    /\ (pc = "done" /\ result # None /\ Unwrap(result).kind = "Ok") => cwd = "src_dir"
    /\ (BuildFailed \/ (build_result # None /\ fs.binary = "absent")) => cwd = "subdir"

\* C18: every invocation rewrites the build directory and rebuilds: the
\* two files are those of this invocation's code and config, whatever an
\* earlier invocation left, and the binary executed is the one this
\* invocation's build produced.
C18_FullRebuild ==
    /\ Len(writes) >= 1 =>
           fs.main_rs = Some(code_main(separate_imports(GeneratedCode), codegen_cfg))
    /\ Len(writes) >= 2 =>
           fs.cargo_toml \in {Some(toml_code(dir)) : dir \in YangDevDirs}
    /\ ran_binary # None => Unwrap(ran_binary) = "fresh"

(***************************************************************************)
(* The library functions.                                                  *)
(***************************************************************************)
\* extract_code has returned.
Extracted == call = "extract_code" /\ extracted # None

RECURSIVE TaggedText(_, _)
\* The text of the fenced blocks of a tag, one after the other in document
\* order.
TaggedText(blocks, tag) ==
    IF blocks = <<>> THEN <<>>
    ELSE (IF Head(blocks).kind = "fenced" /\ Head(blocks).lang = tag
          THEN Head(blocks).text ELSE <<>>)
         \o TaggedText(Tail(blocks), tag)

\* The block carries one of the two tags extract_code knows.
Recognised(block) == block.kind = "fenced" /\ block.lang \in {"rust", "toml"}

\* The buffer is the text, or the text less one newline at its end.
UpToOneNewline(buffer, text) == buffer = text \/ buffer \o <<NL>> = text

\* C11: extract_code puts the text of the rust-tagged blocks, in document
\* order, in the source buffer and the text of the toml-tagged blocks, in
\* document order, in the manifest buffer; a block with another tag or
\* with none is in neither; a document without a recognised block gives
\* the empty extraction.
C11_Classification ==
    Extracted =>
        LET code == Unwrap(extracted)
            blocks == markdown.blocks
        IN  /\ UpToOneNewline(code.rust, TaggedText(blocks, "rust"))
            /\ UpToOneNewline(code.toml, TaggedText(blocks, "toml"))
            /\ (\A i \in DOMAIN blocks : ~Recognised(blocks[i])) =>
                   code = DefaultExtraction

\* C11's case: a document with a block extract_code ignores and a rust
\* block after it.
C11_Witness ==
    /\ Extracted
    /\ Len(markdown.blocks) = 2
    /\ ~Recognised(markdown.blocks[1])
    /\ markdown.blocks[1].kind = "fenced"
    /\ markdown.blocks[2] = Fenced("rust", <<"x;", NL>>)
    /\ Unwrap(extracted).rust = <<"x;", NL>>

\* The text ends in a blank line: a newline after a newline.
EndsInBlankLine(text) ==
    Len(text) >= 2 /\ SubSeq(text, Len(text) - 1, Len(text)) = <<NL, NL>>

\* C12: each buffer extract_code returns is its accumulated text less the
\* one newline of a trailing blank line when the text ends in a blank
\* line, and the accumulated text itself otherwise: never more than one
\* newline is taken away.
C12_TrimOneBlankLine ==
    Extracted =>
        LET code == Unwrap(extracted)
            Trimmed(buffer, raw) ==
                /\ Len(raw) - Len(buffer) \in {0, 1}
                /\ buffer = SubSeq(raw, 1, Len(buffer))
                /\ EndsInBlankLine(raw) <=> Len(buffer) = Len(raw) - 1
        IN  /\ Trimmed(code.rust, TaggedText(markdown.blocks, "rust"))
            /\ Trimmed(code.toml, TaggedText(markdown.blocks, "toml"))

\* C12's case: source text that ends in two blank lines keeps one of them.
C12_Witness ==
    /\ Extracted
    /\ TaggedText(markdown.blocks, "rust") = <<"y;", NL, NL, NL>>
    /\ Unwrap(extracted).rust = <<"y;", NL, NL>>

\* separate_imports and code_main have returned.
Separated == call = "separate_imports" /\ separated # None

\* The characters of the lines, in the order of their code points.
CharOrder == <<" ", ";", "a", "b", "e", "r", "s", "u", "x", "y">>
CharRank(c) == CHOOSE i \in DOMAIN CharOrder : CharOrder[i] = c

RECURSIVE LexLess(_, _)
\* a < b as strings.
LexLess(a, b) ==
    IF b = <<>> THEN FALSE
    ELSE IF a = <<>> THEN TRUE
    ELSE IF Head(a) = Head(b) THEN LexLess(Tail(a), Tail(b))
    ELSE CharRank(Head(a)) < CharRank(Head(b))

\* The line starts with "use ".
HasUsePrefix(line) ==
    Len(line) >= 4 /\ line[1] = "u" /\ line[2] = "s" /\ line[3] = "e" /\ line[4] = " "

\* The line is neither an import nor empty.
IsRemaining(line) == ~HasUsePrefix(line) /\ line # <<>>

\* The import line ends in the terminator.
Terminated(line) == Len(line) >= 5 /\ line[Len(line)] = ";"

\* Every import line of the source is an import statement.
ImportStatementsOnly ==
    \A i \in DOMAIN source_lines :
        HasUsePrefix(source_lines[i]) => Terminated(source_lines[i])

\* C13: the imports emitted into main.rs are the import statements of the
\* source without duplicates, in lexicographic order: two identical
\* import lines give one emitted import.
C13_ImportsDedupedSorted ==
    (Separated /\ ImportStatementsOnly) =>
        LET emitted == Unwrap(separated).main_rs.imports
            found == Unwrap(separated).main_cfg.imports
        IN  /\ \A i, j \in DOMAIN emitted : i < j => LexLess(emitted[i], emitted[j])
            /\ {emitted[i] : i \in DOMAIN emitted} = {found[i] : i \in DOMAIN found}

RECURSIVE Fragment(_)
\* Lines put together with a newline between each two.
Fragment(lines) ==
    IF Len(lines) = 1 THEN lines[1]
    ELSE lines[1] \o <<NL>> \o Fragment(Tail(lines))

CommandReturned == call = "run_command" /\ command_result # None

\* The invocation as a string: the command and its arguments, a space
\* before each argument.
Invocation(invoked) ==
    IF invoked.args = <<>> THEN <<invoked.command_name, " ">>
    ELSE IF Len(invoked.args) = 1
    THEN <<invoked.command_name, " ", invoked.args[1]>>
    ELSE <<invoked.command_name, " ", invoked.args[1], " ", invoked.args[2]>>

C20_CountNeverUnderflows ==
    (call = "separate_imports" /\ (separated # None \/ result # None)) =>
        /\ \A i \in DOMAIN source_lines :
               HasUsePrefix(source_lines[i]) => Len(source_lines[i]) - 5 >= 0
        /\ separated # None

====
